---- MODULE Spec2Model ----
(***************************************************************************)
(* Model of the goiryoku-kojo backend: the in-process rate limiter and the *)
(* score-answers handler (functions/score_answers/main.py), the            *)
(* generate-words batch handler (functions/generate_words/main.py) and the *)
(* document store client (functions/shared/firestore_client.py).           *)
(*                                                                         *)
(* Time is fixed-point: one unit is 1/TicksPerSecond of a second, so that  *)
(* the fractional part of time.time() that int() truncates is visible.     *)
(***************************************************************************)
EXTENDS Integers, Sequences, FiniteSets, TLC

\* ------------------------------------------------------------------ bounds
TicksPerSecond == 2       \* clock resolution of the model
MaxCalls == 12            \* rate-limit checks of the key "a" in one behaviour
MaxOtherCalls == 1        \* rate-limit checks of each other key
MaxAdvances == 2          \* clock advances in one behaviour
DaysBefore == 1           \* modelled calendar days before 2024-02-26
MaxDay == 9               \* last day number of the modelled calendar
MaxEntries == 2           \* entries in one AI response / one save_words call
MaxSpan == 5              \* days between the first and last range bound tried

\* ------------------------------------------------- program constants
RATE_LIMIT_WINDOW_SECONDS == 60
RATE_LIMIT_MAX_REQUESTS == 10
DAYS_AHEAD == 7
RECENT_DAYS == 10
DEFAULT_DAYS == 30
MAX_DAYS == 30

\* first day number of the modelled calendar
MinDay == 0 - DaysBefore

WindowTicks == RATE_LIMIT_WINDOW_SECONDS * TicksPerSecond

None == "None"

\* client keys seen by the limiter; "unknown" is _get_client_ip's fallback
Keys == {"a", "b", "unknown"}
\* keys used by direct calls of _check_rate_limit
CallKeys == {"a", "b"}
\* keys used by the concurrent callers
ConcKeys == {"a"}
Threads == {1, 2}

VARIABLES
    now,          \* the wall clock, in ticks (time.time())
    store,        \* _rate_limit_store: key -> list of timestamps
    allowedLog,   \* history: key -> timestamps of all calls that returned allowed
    ret,          \* return value of the last finished _check_rate_limit call,
                  \* with the key's pending denial that preceded it ("after")
    pending,      \* key -> the last denial of the key not followed by a call of it
    calls,        \* key -> number of _check_rate_limit calls started
    advances,     \* number of clock advances
    lock,         \* _rate_limit_lock: 0 when free, else the holding thread
    pc,           \* thread -> position inside _check_rate_limit
    local,        \* thread -> [client_ip, current_time] of the call in progress
    scoreReq,     \* the last request score_answers handled
    scoreResp,    \* the Response it returned, and what it did on the way
    today,        \* date.today(), as a day number
    db,           \* the "words" collection: document id -> document
    genResp,      \* what the last generate_words invocation returned and did
    missingRet,   \* the last direct get_missing_dates call and its result,
                  \* with the parity of the number of such calls
    aiRet,        \* the last direct call of a GeminiClient method: the method,
                  \* its input and what it returned or raised
    wordsReq,     \* the last request get_words handled
    wordsResp     \* the Response it returned, and what it did on the way

limVars == <<store, allowedLog, ret, pending, calls>>
clockVars == <<now, advances>>
thrVars == <<lock, pc, local>>
scoreVars == <<scoreReq, scoreResp>>
genVars == <<today, db, genResp, missingRet>>
aiVars == <<aiRet>>
wordsVars == <<wordsReq, wordsResp>>
vars == <<now, store, allowedLog, ret, pending, calls, advances, lock, pc,
          local, scoreReq, scoreResp, today, db, genResp, missingRet, aiRet,
          wordsReq, wordsResp>>

\* ------------------------------------------------------ pure helpers
RECURSIVE SelectSeqBy(_, _)
\* [ts for ts in timestamps if ts > window_start]
SelectSeqBy(timestamps, window_start) ==
    IF timestamps = <<>> THEN <<>>
    ELSE LET rest == SelectSeqBy(Tail(timestamps), window_start)
         IN IF Head(timestamps) > window_start
            THEN <<Head(timestamps)>> \o rest
            ELSE rest

\* variant: keeps the timestamp that lies exactly on window_start
cleanup_inclusive(timestamps, window_start) ==
    SelectSeq(timestamps, LAMBDA ts : ts >= window_start)

_cleanup_old_requests(timestamps, window_start) ==
    SelectSeqBy(timestamps, window_start)

SeqRange(s) == {s[i] : i \in DOMAIN s}

\* min() of a non-empty list
Min(s) == CHOOSE m \in SeqRange(s) : \A x \in SeqRange(s) : m <= x

Max2(a, b) == IF a >= b THEN a ELSE b

\* int(x / TicksPerSecond): Python's int() truncates toward zero
IntSeconds(ticks) ==
    IF ticks >= 0 THEN ticks \div TicksPerSecond
    ELSE -((-ticks) \div TicksPerSecond)

\* variant: the bare truncated difference
RetryAfter_truncated(oldest_in_window, current_time) ==
    IntSeconds(oldest_in_window + WindowTicks - current_time)

\* retry_after = int(oldest_in_window + WINDOW - current_time) + 1
RetryAfter(oldest_in_window, current_time) ==
    IntSeconds(oldest_in_window + WindowTicks - current_time) + 1

\* window_start = current_time - RATE_LIMIT_WINDOW_SECONDS
WindowStart(current_time) == current_time - WindowTicks

\* variant: off by one, the limit itself is still let through
OverLimit_strict(request_count) == request_count > RATE_LIMIT_MAX_REQUESTS

\* variant: the limit is never reached
OverLimit_never(request_count) == FALSE

\* request_count >= RATE_LIMIT_MAX_REQUESTS
OverLimit(request_count) == request_count >= RATE_LIMIT_MAX_REQUESTS

\* variant: an allowed request is not recorded
Decide_unrecorded(pruned, current_time) ==
    IF Len(pruned) >= RATE_LIMIT_MAX_REQUESTS
    THEN [list |-> pruned, allowed |-> FALSE,
          retry_after |-> Max2(1, RetryAfter(Min(pruned), current_time))]
    ELSE [list |-> pruned, allowed |-> TRUE, retry_after |-> 0]

\* The body of "with _rate_limit_lock" after the cleanup: count, then deny
\* or record.  pruned is _rate_limit_store[client_ip] after the cleanup.
Decide(pruned, current_time) ==
    IF OverLimit(Len(pruned))
    THEN [list |-> pruned, allowed |-> FALSE,
          retry_after |-> Max2(1, RetryAfter(Min(pruned), current_time))]
    ELSE [list |-> Append(pruned, current_time), allowed |-> TRUE,
          retry_after |-> 0]

\* One whole _check_rate_limit call on the list of a key
CheckRateLimit(timestamps, current_time) ==
    Decide(_cleanup_old_requests(timestamps, WindowStart(current_time)),
           current_time)

\* ------------------------------------------------ dates and date strings
\* A Python date is a day number counted from 2024-02-26 (timedelta
\* arithmetic is integer arithmetic); date.isoformat() gives the string
\* "YYYY-MM-DD", written <<year, month, day>>.  The components are zero-padded
\* to a fixed width, so comparing two such strings compares the tuples
\* component by component.
EpochDate == <<2024, 2, 26>>

IsLeap(y) == (y % 4 = 0 /\ y % 100 # 0) \/ y % 400 = 0

DaysInMonth(y, m) ==
    IF m = 2 THEN (IF IsLeap(y) THEN 29 ELSE 28)
    ELSE IF m \in {4, 6, 9, 11} THEN 30 ELSE 31

NextDate(d) ==
    IF d[3] < DaysInMonth(d[1], d[2]) THEN <<d[1], d[2], d[3] + 1>>
    ELSE IF d[2] < 12 THEN <<d[1], d[2] + 1, 1>>
    ELSE <<d[1] + 1, 1, 1>>

PrevDate(d) ==
    IF d[3] > 1 THEN <<d[1], d[2], d[3] - 1>>
    ELSE IF d[2] > 1 THEN <<d[1], d[2] - 1, DaysInMonth(d[1], d[2] - 1)>>
    ELSE <<d[1] - 1, 12, 31>>

RECURSIVE DateOfDay(_)
DateOfDay(day) ==
    IF day = 0 THEN EpochDate
    ELSE IF day > 0 THEN NextDate(DateOfDay(day - 1))
    ELSE PrevDate(DateOfDay(day + 1))

\* the days any computation of the model touches, with their strings
CalendarDays == (MinDay - MAX_DAYS)..(MaxDay + MAX_DAYS)
IsoString == [day \in CalendarDays |-> DateOfDay(day)]

\* date.isoformat()
isoformat(day) == IsoString[day]

\* a < b on date strings
StrLT(a, b) ==
    \/ a[1] < b[1]
    \/ a[1] = b[1] /\ a[2] < b[2]
    \/ a[1] = b[1] /\ a[2] = b[2] /\ a[3] < b[3]

StrLE(a, b) == a = b \/ StrLT(a, b)

\* a string that is no calendar date, as the AI may write it: "2024-02-30"
BogusDate == <<2024, 2, 30>>

\* ------------------------------------------------------ the document store
Days == MinDay..MaxDay
DocIds == {isoformat(d) : d \in Days} \cup {BogusDate}
NoDoc == [date |-> None]
WordTexts == {"w1", "w2"}

Doc(date, word) ==
    [date |-> date, word |-> word, reading |-> "r", word_en |-> "e"]

EmptyDb == [id \in DocIds |-> NoDoc]

\* the store with a document for every day of the set
Stocked(days) ==
    [id \in DocIds |->
        IF \E d \in days : isoformat(d) = id THEN Doc(id, "w1") ELSE NoDoc]

RECURSIVE SortByDate_descending(_)
\* variant: the latest date first
SortByDate_descending(docs) ==
    IF docs = {} THEN <<>>
    ELSE LET first == CHOOSE x \in docs : \A y \in docs : StrLE(y.date, x.date)
         IN <<first>> \o SortByDate_descending(docs \ {first})

RECURSIVE SortByDate(_)
\* order_by("date"): the documents of a set as a list, ascending by date
SortByDate(docs) ==
    IF docs = {} THEN <<>>
    ELSE LET first == CHOOSE x \in docs : \A y \in docs : StrLE(x.date, y.date)
         IN <<first>> \o SortByDate(docs \ {first})

\* variant: the end date is excluded from the query
get_words_by_date_range_open(store_, start_date, end_date) ==
    LET start_str == isoformat(start_date)
        end_str == isoformat(end_date)
    IN SortByDate({store_[id] : id \in
          {i \in DocIds : /\ store_[i] # NoDoc
                          /\ StrLE(start_str, store_[i].date)
                          /\ StrLT(store_[i].date, end_str)}})

\* FirestoreClient.get_words_by_date_range
get_words_by_date_range(store_, start_date, end_date) ==
    LET start_str == isoformat(start_date)
        end_str == isoformat(end_date)
    IN SortByDate({store_[id] : id \in
          {i \in DocIds : /\ store_[i] # NoDoc
                          /\ StrLE(start_str, store_[i].date)
                          /\ StrLE(store_[i].date, end_str)}})

\* FirestoreClient.get_recent_words
get_recent_words(store_, today_, days) ==
    get_words_by_date_range(store_, today_ - days, today_)

\* FirestoreClient.get_existing_dates
get_existing_dates(store_, start_date, end_date) ==
    LET words == get_words_by_date_range(store_, start_date, end_date)
    IN {words[i].date : i \in DOMAIN words}

RECURSIVE SetAll_create_only(_, _)
\* variant: a document that exists is left as it is
SetAll_create_only(store_, words) ==
    IF words = <<>> THEN store_
    ELSE SetAll_create_only(
             IF store_[Head(words).date] = NoDoc
             THEN [store_ EXCEPT ![Head(words).date] = Head(words)]
             ELSE store_,
             Tail(words))

RECURSIVE SetAll(_, _)
\* batch.set(doc_ref, word) for every word in order, then batch.commit():
\* a later set of the same document replaces the earlier one
SetAll(store_, words) ==
    IF words = <<>> THEN store_
    ELSE SetAll([store_ EXCEPT ![Head(words).date] = Head(words)], Tail(words))

\* FirestoreClient.save_words: the store afterwards and the count returned
save_words(store_, words) ==
    [db |-> SetAll(store_, words), count |-> Len(words)]

RECURSIVE MissingFrom_exclusive(_, _, _)
\* variant: the end date is excluded
MissingFrom_exclusive(current, end_date, existing_dates) ==
    IF current < end_date
    THEN (IF isoformat(current) \notin existing_dates
          THEN <<isoformat(current)>> ELSE <<>>)
         \o MissingFrom_exclusive(current + 1, end_date, existing_dates)
    ELSE <<>>

RECURSIVE MissingFrom(_, _, _)
\* the while loop of get_missing_dates
MissingFrom(current, end_date, existing_dates) ==
    IF current <= end_date
    THEN (IF isoformat(current) \notin existing_dates
          THEN <<isoformat(current)>> ELSE <<>>)
         \o MissingFrom(current + 1, end_date, existing_dates)
    ELSE <<>>

get_missing_dates(store_, start_date, end_date) ==
    MissingFrom(start_date, end_date,
                get_existing_dates(store_, start_date, end_date))

\* ------------------------------------------------- the AI response text
\* A response text is a list of tokens: whitespace (ws), the three-backquote
\* fence, the tag json, or a payload (a JSON value or text that is no JSON).
Tok(t) == [tok |-> t]
Val(v) == [tok |-> "value", value |-> v]

RECURSIVE LStrip(_)
LStrip(text) ==
    IF text # <<>> /\ Head(text).tok = "ws" THEN LStrip(Tail(text)) ELSE text

RECURSIVE RStrip(_)
RStrip(text) ==
    IF text # <<>> /\ text[Len(text)].tok = "ws"
    THEN RStrip(SubSeq(text, 1, Len(text) - 1))
    ELSE text

\* str.strip()
StripText(text) == RStrip(LStrip(text))

\* str.startswith / str.endswith, the prefix given by its token names
StartsWith(text, prefix) ==
    /\ Len(text) >= Len(prefix)
    /\ \A i \in 1..Len(prefix) : text[i].tok = prefix[i]

EndsWith(text, suffix) ==
    /\ Len(text) >= Len(suffix)
    /\ \A i \in 1..Len(suffix) :
          text[Len(text) - Len(suffix) + i].tok = suffix[i]

DropFirst(text, n) == SubSeq(text, n + 1, Len(text))
DropLast(text, n) == SubSeq(text, 1, Len(text) - n)

\* variant: the tag after the opening fence is left in place
CleanText_tag_kept(response_text) ==
    LET c0 == StripText(response_text)
        c2 == IF StartsWith(c0, <<"fence">>) THEN DropFirst(c0, 1) ELSE c0
        c3 == IF EndsWith(c2, <<"fence">>) THEN DropLast(c2, 1) ELSE c2
    IN StripText(c3)

\* "Clean response text (remove markdown code blocks if present)"
CleanText(response_text) ==
    LET c0 == StripText(response_text)
        c1 == IF StartsWith(c0, <<"fence", "json">>) THEN DropFirst(c0, 2) ELSE c0
        c2 == IF StartsWith(c1, <<"fence">>) THEN DropFirst(c1, 1) ELSE c1
        c3 == IF EndsWith(c2, <<"fence">>) THEN DropLast(c2, 1) ELSE c2
    IN StripText(c3)

\* json.loads: the text must be one JSON value, whitespace around it allowed
json_loads(cleaned) ==
    LET doc == StripText(cleaned)
    IN IF /\ Len(doc) = 1
          /\ doc[1].tok = "value"
          /\ doc[1].value.json # "garbage"
       THEN [ok |-> TRUE, data |-> doc[1].value]
       ELSE [ok |-> FALSE, error |-> "JSONDecodeError"]

RequiredFields == {"date", "word", "reading", "word_en"}

RECURSIVE ValidateWords(_)
\* the loop over data["words"]: entries lacking a field are skipped
ValidateWords(words) ==
    IF words = <<>> THEN <<>>
    ELSE LET word == Head(words)
         IN (IF RequiredFields \subseteq word.fields
             THEN <<[date |-> word.date, word |-> word.word,
                     reading |-> word.reading, word_en |-> word.word_en]>>
             ELSE <<>>)
            \o ValidateWords(Tail(words))

\* GeminiClient._parse_response: the list returned or the exception raised
_parse_response(response_text) ==
    LET loaded == json_loads(CleanText(response_text))
    IN IF ~loaded.ok
       THEN [ok |-> FALSE, error |-> "GeminiParseError",
             msg |-> "Failed to parse JSON"]
       ELSE IF loaded.data.json = "number"
       THEN [ok |-> FALSE, error |-> "TypeError", msg |-> "not iterable"]
       ELSE IF ~loaded.data.has_words
       THEN [ok |-> FALSE, error |-> "GeminiParseError",
             msg |-> "Response missing words key"]
       ELSE [ok |-> TRUE, words |-> ValidateWords(loaded.data.words)]

\* GeminiClient.generate_words: ai is what the model call does, raise or
\* return a text
gemini_generate_words(dates, recent_words, ai) ==
    IF dates = <<>> THEN [ok |-> TRUE, words |-> <<>>, calls |-> 0]
    ELSE IF ai.kind = "api_error"
    THEN [ok |-> FALSE, error |-> "GeminiClientError",
          msg |-> <<"API error", ai.msg>>, calls |-> 1]
    ELSE LET parsed == _parse_response(ai.text)
         IN IF parsed.ok
            THEN [ok |-> TRUE, words |-> parsed.words, calls |-> 1]
            ELSE IF parsed.error = "JSONDecodeError"
            THEN [ok |-> FALSE, error |-> "GeminiParseError",
                  msg |-> <<"Invalid JSON response", parsed.msg>>, calls |-> 1]
            ELSE [ok |-> FALSE, error |-> "GeminiClientError",
                  msg |-> <<"API error", parsed.msg>>, calls |-> 1]

NoPending == [at |-> -1, retry_after |-> 0]
NoRet == [key |-> None, allowed |-> FALSE, retry_after |-> 0, at |-> 0,
          after |-> NoPending]

\* what a finished call leaves behind, apart from the store
Finish(k, r, current_time) ==
    /\ ret' = [key |-> k, allowed |-> r.allowed,
               retry_after |-> r.retry_after, at |-> current_time,
               after |-> pending[k]]
    /\ allowedLog' = IF r.allowed
                     THEN [allowedLog EXCEPT ![k] = Append(@, current_time)]
                     ELSE allowedLog
    /\ pending' = [pending EXCEPT ![k] =
                     IF r.allowed THEN NoPending
                     ELSE [at |-> current_time, retry_after |-> r.retry_after]]

\* a further call of the key k fits the budget: MaxCalls calls of "a",
\* MaxOtherCalls calls of all other keys together
WithinBudget(k) ==
    IF k = "a" THEN calls[k] < MaxCalls
    ELSE calls["b"] + calls["unknown"] < MaxOtherCalls

NoRequest == [method |-> None]
NoResponse == [status |-> 0]

\* The limiter after n allowed calls of the key "a" at time 0
InitLimiter(n) ==
    /\ now = 0
    /\ store = [k \in Keys |-> IF k = "a" THEN [i \in 1..n |-> 0] ELSE <<>>]
    /\ allowedLog = store
    /\ ret = IF n = 0 THEN NoRet
             ELSE [key |-> "a", allowed |-> TRUE, retry_after |-> 0, at |-> 0,
                   after |-> NoPending]
    /\ pending = [k \in Keys |-> NoPending]
    /\ calls = [k \in Keys |-> IF k = "a" THEN n ELSE 0]
    /\ advances = 0
    /\ lock = 0
    /\ pc = [t \in Threads |-> "idle"]
    /\ local = [t \in Threads |-> [client_ip |-> None, current_time |-> 0]]

InitScore ==
    /\ scoreReq = NoRequest
    /\ scoreResp = NoResponse

NoGenResponse == [status |-> 0]
NoMissing == [start |-> 0, end |-> -1, result |-> <<>>, parity |-> 0]

\* the word store as the limiter and score_answers leave it: untouched
InitGenIdle ==
    /\ today = 0
    /\ db = EmptyDb
    /\ genResp = NoGenResponse
    /\ missingRet = NoMissing

\* no GeminiClient method called directly yet, no get_words request served
NoAiRet == [fn |-> None]
InitAi ==
    /\ aiRet = NoAiRet
    /\ wordsReq = NoRequest
    /\ wordsResp = NoResponse

\* module load: empty store, no request served
Init ==
    /\ InitLimiter(0)
    /\ InitScore
    /\ InitGenIdle
    /\ InitAi

\* ------------------------------------------------------------ the clock
\* The clock moves by one tick, by one tick less than the window, or by the
\* retry_after the last denied call returned (a client that obeys it).
AdvanceBy(d) ==
    /\ advances < MaxAdvances
    /\ d > 0
    /\ now' = now + d
    /\ advances' = advances + 1
    /\ UNCHANGED <<limVars, thrVars, scoreVars, genVars, aiVars, wordsVars>>

Tick == AdvanceBy(1)

AlmostWindow == AdvanceBy(WindowTicks - 1)

SleepRetryAfter ==
    /\ ret.key # None
    /\ ~ret.allowed
    /\ AdvanceBy(ret.retry_after * TicksPerSecond - (now - ret.at))

\* ------------------------------------------ _check_rate_limit, one at a time
CheckRateLimitCall(k) ==
    /\ WithinBudget(k)
    /\ \E r \in {CheckRateLimit(store[k], now)} :
          /\ store' = [store EXCEPT ![k] = r.list]
          /\ Finish(k, r, now)
    /\ calls' = [calls EXCEPT ![k] = @ + 1]
    /\ UNCHANGED <<clockVars, thrVars, scoreVars, genVars, aiVars, wordsVars>>

NextSeq ==
    \/ Tick
    \/ AlmostWindow
    \/ SleepRetryAfter
    \/ \E k \in CallKeys : CheckRateLimitCall(k)

Spec == Init /\ [][NextSeq]_vars

\* ------------------------------- _check_rate_limit, concurrent invocations
\* current_time = time.time(); window_start = current_time - WINDOW
\* (both computed before the lock is requested)
ReadClock(t, k) ==
    /\ WithinBudget(k)
    /\ pc[t] = "idle"
    /\ local' = [local EXCEPT ![t] = [client_ip |-> k, current_time |-> now]]
    /\ pc' = [pc EXCEPT ![t] = "wait_lock"]
    /\ calls' = [calls EXCEPT ![k] = @ + 1]
    /\ UNCHANGED <<clockVars, store, allowedLog, ret, pending, lock, scoreVars,
                   genVars, aiVars, wordsVars>>

\* with _rate_limit_lock: (entry)
Acquire(t) ==
    /\ pc[t] = "wait_lock"
    /\ lock = 0
    /\ lock' = t
    /\ pc' = [pc EXCEPT ![t] = "locked"]
    /\ UNCHANGED <<clockVars, limVars, local, scoreVars, genVars, aiVars, wordsVars>>

\* _rate_limit_store[client_ip] = _cleanup_old_requests(...)
Prune(t) ==
    /\ pc[t] = "locked"
    /\ lock = t
    /\ store' = [store EXCEPT ![local[t].client_ip] =
                   _cleanup_old_requests(@, WindowStart(local[t].current_time))]
    /\ pc' = [pc EXCEPT ![t] = "pruned"]
    /\ UNCHANGED <<clockVars, allowedLog, ret, pending, calls, lock, local,
                   scoreVars, genVars, aiVars, wordsVars>>

\* count, deny or append, return (which leaves the with block)
CountAndRecord(t) ==
    /\ pc[t] = "pruned"
    /\ lock = t
    /\ LET k == local[t].client_ip
           r == Decide(store[k], local[t].current_time)
       IN /\ store' = [store EXCEPT ![k] = r.list]
          /\ Finish(k, r, local[t].current_time)
    /\ lock' = 0
    /\ pc' = [pc EXCEPT ![t] = "idle"]
    /\ UNCHANGED <<clockVars, calls, local, scoreVars, genVars, aiVars, wordsVars>>

NextConc ==
    \/ Tick
    \/ AlmostWindow
    \/ \E t \in Threads : \E k \in ConcKeys : ReadClock(t, k)
    \/ \E t \in Threads : Acquire(t)
    \/ \E t \in Threads : Prune(t)
    \/ \E t \in Threads : CountAndRecord(t)

\* two request threads in a process that has already served
\* RATE_LIMIT_MAX_REQUESTS - 1 requests of the key "a"
InitConc ==
    /\ InitLimiter(RATE_LIMIT_MAX_REQUESTS - 1)
    /\ InitScore
    /\ InitGenIdle
    /\ InitAi

SpecConc == InitConc /\ [][NextConc]_vars

\* ------------------------------------------------------ score_answers
\* str.strip() on the elements of X-Forwarded-For used here
Strip(x) == IF x = " a" THEN "a" ELSE IF x = " b" THEN "b" ELSE x

\* forwarded_for is the header already split at ","; <<>> is the absent or
\* empty header
_get_client_ip(request) ==
    IF request.forwarded_for # <<>>
    THEN Strip(Head(request.forwarded_for))
    ELSE IF request.remote_addr # None THEN request.remote_addr ELSE "unknown"

Methods == {"OPTIONS", "POST"}
Origins == {[forwarded_for |-> <<>>, remote_addr |-> "a"],
            [forwarded_for |-> <<" b", "a">>, remote_addr |-> "a"],
            [forwarded_for |-> <<>>, remote_addr |-> None]}
WordValues == {None, "", "w"}
GameTypeValues == {None, "", "invalid", "word_replacement", "rhyming"}
\* request.get_json(silent=True): None (no or unparsable body), {} , a JSON
\* array, or an object with or without the fields
Bodies ==
    {[kind |-> k, word |-> None, game_type |-> None] :
        k \in {"none", "empty", "array"}}
    \cup {[kind |-> "object", word |-> w, game_type |-> g] :
            w \in WordValues, g \in {"invalid", "rhyming"}}
    \cup {[kind |-> "object", word |-> "w", game_type |-> g] :
            g \in GameTypeValues}
NoBody == [kind |-> "none", word |-> None, game_type |-> None]
ValidBody == [kind |-> "object", word |-> "w", game_type |-> "rhyming"]
InvalidBody == [kind |-> "object", word |-> "w", game_type |-> "invalid"]
MainOrigin == [forwarded_for |-> <<>>, remote_addr |-> "a"]
\* every body from the main client, a valid one from the others, and a
\* preflight from each
Requests ==
    {[method |-> "POST", forwarded_for |-> MainOrigin.forwarded_for,
      remote_addr |-> MainOrigin.remote_addr, body |-> b] : b \in Bodies}
    \cup {[method |-> "POST", forwarded_for |-> o.forwarded_for,
           remote_addr |-> o.remote_addr, body |-> b] :
             o \in Origins, b \in {ValidBody}}
    \cup {[method |-> "OPTIONS", forwarded_for |-> o.forwarded_for,
           remote_addr |-> o.remote_addr, body |-> NoBody] : o \in Origins}
\* what gemini_client.score_answers does: return a dict or raise
\* GeminiClientError
ScoreOutcomes == {[kind |-> "result", score |-> 80, feedback |-> "f"],
                  [kind |-> "GeminiClientError", msg |-> "e1"],
                  [kind |-> "GeminiClientError", msg |-> "e2"]}
NoOutcome == [kind |-> None]

\* Python truthiness of the values used here
Truthy(v) == v # None /\ v # ""

ValidGameTypes == {"word_replacement", "rhyming"}

Response(status, retry_after, success, error, ai_calls, validated) ==
    [status |-> status, retry_after |-> retry_after, success |-> success,
     error |-> error, ai_calls |-> ai_calls, validated |-> validated,
     allow_origin |-> "*"]

\* variant: game_type is only required to be present
ScoreBody_any_game_type(body, ai) ==
    IF body.kind \in {"none", "empty"}
    THEN Response(400, None, FALSE, <<"Request body is required">>, 0, FALSE)
    ELSE IF body.kind = "array"
    THEN Response(500, None, FALSE,
                  <<"Internal server error", "AttributeError">>, 0, FALSE)
    ELSE IF ~Truthy(body.word)
    THEN Response(400, None, FALSE, <<"word is required">>, 0, TRUE)
    ELSE IF ~Truthy(body.game_type)
    THEN Response(400, None, FALSE,
                  <<"game_type must be word_replacement or rhyming">>, 0, TRUE)
    ELSE Response(200, None, TRUE, None, 1, TRUE)

\* the try block of score_answers, entered once the rate limit allowed
ScoreBody(body, ai) ==
    IF body.kind \in {"none", "empty"}
    THEN Response(400, None, FALSE, <<"Request body is required">>, 0, FALSE)
    ELSE IF body.kind = "array"
    THEN Response(500, None, FALSE,
                  <<"Internal server error", "AttributeError">>, 0, FALSE)
    ELSE IF ~Truthy(body.word)
    THEN Response(400, None, FALSE, <<"word is required">>, 0, TRUE)
    ELSE IF ~Truthy(body.game_type) \/ body.game_type \notin ValidGameTypes
    THEN Response(400, None, FALSE,
                  <<"game_type must be word_replacement or rhyming">>, 0, TRUE)
    ELSE IF ai.kind = "result"
    THEN [Response(200, None, TRUE, None, 1, TRUE) EXCEPT
            !.error = <<ai.score, ai.feedback>>]
    ELSE Response(500, None, FALSE, <<"AI scoring failed", ai.msg>>, 1, TRUE)

\* the AI layer is consulted only by requests that reach it
OutcomesFor(request) ==
    IF /\ request.method = "POST"
       /\ request.body.kind = "object"
       /\ Truthy(request.body.word)
       /\ request.body.game_type \in ValidGameTypes
    THEN ScoreOutcomes
    ELSE {NoOutcome}

\* variant: one timestamp list serves every client
ScoreAnswers_one_list(request, ai) ==
    /\ scoreReq' = request
    /\ IF request.method = "OPTIONS"
       THEN /\ scoreResp' = Response(204, None, None, None, 0, FALSE)
            /\ UNCHANGED limVars
       ELSE \E client_ip \in {_get_client_ip(request)} :
              /\ WithinBudget(client_ip)
              /\ \E r \in {CheckRateLimit(store[client_ip], now)} :
                    /\ store' = [k \in Keys |-> r.list]
                    /\ Finish(client_ip, r, now)
                    /\ scoreResp' =
                         IF ~r.allowed
                         THEN Response(429, r.retry_after, FALSE,
                                       <<"rate limit exceeded">>, 0, FALSE)
                         ELSE ScoreBody(request.body, ai)
              /\ calls' = [calls EXCEPT ![client_ip] = @ + 1]
    /\ UNCHANGED <<clockVars, thrVars, genVars, aiVars, wordsVars>>

ScoreAnswers(request, ai) ==
    /\ scoreReq' = request
    /\ IF request.method = "OPTIONS"
       THEN /\ scoreResp' = Response(204, None, None, None, 0, FALSE)
            /\ UNCHANGED limVars
       ELSE \E client_ip \in {_get_client_ip(request)} :
              /\ WithinBudget(client_ip)
              /\ \E r \in {CheckRateLimit(store[client_ip], now)} :
                    /\ store' = [store EXCEPT ![client_ip] = r.list]
                    /\ Finish(client_ip, r, now)
                    /\ scoreResp' =
                         IF ~r.allowed
                         THEN Response(429, r.retry_after, FALSE,
                                       <<"rate limit exceeded">>, 0, FALSE)
                         ELSE ScoreBody(request.body, ai)
              /\ calls' = [calls EXCEPT ![client_ip] = @ + 1]
    /\ UNCHANGED <<clockVars, thrVars, genVars, aiVars, wordsVars>>

NextScore ==
    \/ AlmostWindow
    \/ \E request \in Requests :
          \E ai \in OutcomesFor(request) : ScoreAnswers(request, ai)

\* a process that has already served RATE_LIMIT_MAX_REQUESTS - 1 requests
\* of the key "a"
InitServing ==
    /\ InitLimiter(RATE_LIMIT_MAX_REQUESTS - 1)
    /\ InitScore
    /\ InitGenIdle
    /\ InitAi

SpecScore == InitServing /\ [][NextScore]_vars

\* ------------------------------------------------------ generate_words
Entry(fields, date, word) ==
    [fields |-> fields, date |-> date, word |-> word,
     reading |-> "r", word_en |-> "e"]

\* what the AI may put into "words": well-formed entries (two of them for the
\* same date, one for a date beyond the window) and entries lacking a field
Entries ==
    {Entry(RequiredFields, isoformat(1), "w1"),
     Entry(RequiredFields, isoformat(1), "w2"),
     Entry(RequiredFields, isoformat(2), "w1"),
     Entry(RequiredFields, isoformat(MaxDay), "w1"),
     Entry(RequiredFields \ {"reading"}, isoformat(2), "w2"),
     Entry(RequiredFields \ {"word_en"}, isoformat(2), "w2")}

WordLists == UNION {[1..n -> Entries] : n \in 0..MaxEntries}

WordsPayload(words) == [json |-> "object", has_words |-> TRUE, words |-> words]

GenPayloads ==
    {[json |-> "garbage"], [json |-> "number"],
     [json |-> "object", has_words |-> FALSE]}
    \cup {WordsPayload(w) : w \in WordLists}

Bare(p) == <<Val(p)>>
FencedJson(p) ==
    <<Tok("fence"), Tok("json"), Tok("ws"), Val(p), Tok("ws"), Tok("fence")>>
Fenced(p) == <<Tok("ws"), Tok("fence"), Tok("ws"), Val(p), Tok("fence"), Tok("ws")>>

FencedPayloads ==
    {[json |-> "garbage"],
     WordsPayload(<<Entry(RequiredFields, isoformat(1), "w1")>>)}

GenTexts ==
    {Bare(p) : p \in GenPayloads}
    \cup {FencedJson(p) : p \in FencedPayloads}
    \cup {Fenced(p) : p \in FencedPayloads}

\* what self._model.generate_content does: raise, or return a text
AiResponses ==
    {[kind |-> "api_error", msg |-> m] : m \in {"e1", "e2"}}
    \cup {[kind |-> "text", text |-> t] : t \in GenTexts}

\* the JSON value or non-JSON text inside a response text
PayloadOf(text) ==
    text[CHOOSE i \in DOMAIN text : text[i].tok = "value"].value

\* what the model call did: raised ("api_error"), or returned a text that
\* is no JSON ("garbage"), a JSON number, an object without "words"
\* ("no_words") or an object with "words"
AiKind(ai) ==
    IF ai.kind = "api_error" THEN "api_error"
    ELSE LET p == PayloadOf(ai.text)
         IN IF p.json # "object" THEN p.json
            ELSE IF p.has_words THEN "words" ELSE "no_words"

\* the entries of "words" in what the model call returned, none when there
\* is no such list
AiWords(ai) ==
    IF AiKind(ai) = "words" THEN PayloadOf(ai.text).words ELSE <<>>

GenResponse(status, success, generated, dates, message, error) ==
    [status |-> status, success |-> success, generated |-> generated,
     dates |-> dates, message |-> message, error |-> error]

\* the list comprehension [w["word"] for w in recent_words]
WordsOf(docs) == [i \in DOMAIN docs |-> docs[i].word]

\* variant: an empty list of generated words is saved like any other
GenerateWordsOutcome_empty_saved(store_, missing_dates, generated) ==
    IF missing_dates = <<>>
    THEN [resp |-> GenResponse(200, TRUE, 0, <<>>, "No generation needed", <<>>),
          db |-> store_, written |-> {}]
    ELSE IF ~generated.ok
    THEN [resp |-> GenResponse(500, FALSE, -1, <<>>, "",
                               <<"AI generation failed">> \o generated.msg),
          db |-> store_, written |-> {}]
    ELSE [resp |-> GenResponse(200, TRUE, save_words(store_, generated.words).count,
                               missing_dates, "", <<>>),
          db |-> save_words(store_, generated.words).db,
          written |-> {generated.words[i].date : i \in DOMAIN generated.words}]

\* variant: a failed AI call is reported as a run that generated nothing
GenerateWordsOutcome_lenient(store_, missing_dates, generated) ==
    IF missing_dates = <<>> \/ ~generated.ok
    THEN [resp |-> GenResponse(200, TRUE, 0, <<>>, "No generation needed", <<>>),
          db |-> store_, written |-> {}]
    ELSE IF generated.words = <<>>
    THEN [resp |-> GenResponse(500, FALSE, 0, <<>>, "", <<"No words generated">>),
          db |-> store_, written |-> {}]
    ELSE [resp |-> GenResponse(200, TRUE, save_words(store_, generated.words).count,
                               missing_dates, "", <<>>),
          db |-> save_words(store_, generated.words).db,
          written |-> {generated.words[i].date : i \in DOMAIN generated.words}]

\* generate_words after the AI call: the Response, the store afterwards and
\* the documents set
GenerateWordsOutcome(store_, missing_dates, generated) ==
    IF missing_dates = <<>>
    THEN [resp |-> GenResponse(200, TRUE, 0, <<>>, "No generation needed", <<>>),
          db |-> store_, written |-> {}]
    ELSE IF ~generated.ok
    THEN [resp |-> GenResponse(500, FALSE, -1, <<>>, "",
                               <<"AI generation failed">> \o generated.msg),
          db |-> store_, written |-> {}]
    ELSE IF generated.words = <<>>
    THEN [resp |-> GenResponse(500, FALSE, 0, <<>>, "", <<"No words generated">>),
          db |-> store_, written |-> {}]
    ELSE [resp |-> GenResponse(200, TRUE, save_words(store_, generated.words).count,
                               missing_dates, "", <<>>),
          db |-> save_words(store_, generated.words).db,
          written |-> {generated.words[i].date : i \in DOMAIN generated.words}]

\* generate_words; "written" is the set of documents the invocation set,
\* "ai_calls" the number of model calls, "before" the store it found,
\* "ai_kind" what the model call did when it was made, "ai_words" the
\* entries of "words" in the text it returned
GenerateWords ==
    /\ \E missing_dates \in {get_missing_dates(db, today, today + DAYS_AHEAD)} :
       \E recent_word_list \in
             {WordsOf(get_recent_words(db, today, RECENT_DAYS))} :
       \E ai \in AiResponses :
       \E generated \in
             {IF missing_dates = <<>>
              THEN [ok |-> TRUE, words |-> <<>>, calls |-> 0]
              ELSE gemini_generate_words(missing_dates, recent_word_list, ai)} :
       \E r \in {GenerateWordsOutcome(db, missing_dates, generated)} :
          /\ db' = r.db
          /\ genResp' = [status |-> r.resp.status, success |-> r.resp.success,
                         generated |-> r.resp.generated, dates |-> r.resp.dates,
                         message |-> r.resp.message, error |-> r.resp.error,
                         written |-> r.written, ai_calls |-> generated.calls,
                         before |-> db,
                         ai_kind |-> IF generated.calls = 0 THEN None
                                     ELSE AiKind(ai),
                         ai_words |-> IF generated.calls = 0 THEN <<>>
                                      ELSE AiWords(ai)]
    /\ UNCHANGED <<today, missingRet, clockVars, limVars, thrVars, scoreVars,
                   aiVars, wordsVars>>

\* the stores a scheduled run may find: empty, complete for the window, or
\* with the first two days of the window missing
Todays == {0, 1}
SeedStores(t) ==
    {EmptyDb,
     Stocked(t..(t + DAYS_AHEAD)),
     Stocked((t + 2)..(t + DAYS_AHEAD))}

InitStore ==
    /\ today \in Todays
    /\ db \in SeedStores(today)
    /\ genResp = NoGenResponse
    /\ missingRet = NoMissing

InitGen ==
    /\ InitLimiter(0)
    /\ InitScore
    /\ InitStore
    /\ InitAi

NextGen == GenerateWords

SpecGen == InitGen /\ [][NextGen]_vars

\* ------------------------------------- get_missing_dates and save_words
CallGetMissingDates(start_date, end_date) ==
    /\ missingRet' = [start |-> start_date, end |-> end_date,
                      result |-> get_missing_dates(db, start_date, end_date),
                      parity |-> 1 - missingRet.parity]
    /\ UNCHANGED <<today, db, genResp, clockVars, limVars, thrVars, scoreVars,
                   aiVars, wordsVars>>

\* range bounds: 2024-02-25 .. 2024-03-01 with MaxSpan = 5
RangeDays == MinDay..(MinDay + MaxSpan)

SavedDocs == {Doc(isoformat(1), "w1"), Doc(isoformat(3), "w2"),
              Doc(isoformat(4), "w1"), Doc(BogusDate, "w2")}

SaveWordsCall(words) ==
    /\ db' = save_words(db, words).db
    /\ UNCHANGED <<today, genResp, missingRet, clockVars, limVars, thrVars,
                   scoreVars, aiVars, wordsVars>>

NextDates ==
    \/ \E start_date \in RangeDays : \E end_date \in RangeDays :
          CallGetMissingDates(start_date, end_date)
    \/ \E n \in 1..MaxEntries : \E words \in [1..n -> SavedDocs] :
          SaveWordsCall(words)

SpecDates == InitGen /\ [][NextDates]_vars

\* ------------------------------------ GeminiClient methods, called directly
\* the value of "score" in a scoring payload: absent, null, 80, 85.5 (in
\* tenths), the strings "90" and "abc", a list
ScoreValues ==
    {[t |-> "absent"], [t |-> "null"], [t |-> "int", v |-> 80],
     [t |-> "float", tenths |-> 855], [t |-> "str", decimal |-> TRUE, v |-> 90],
     [t |-> "str", decimal |-> FALSE, v |-> 0], [t |-> "array"]}
FeedbackValues == {[t |-> "absent"], [t |-> "str", v |-> "f"]}

\* int(x): a number is truncated, a string is read as a decimal integer or
\* raises ValueError, None and a list raise TypeError
PyInt(x) ==
    CASE x.t = "int" -> [ok |-> TRUE, v |-> x.v]
      [] x.t = "float" -> [ok |-> TRUE, v |-> x.tenths \div 10]
      [] x.t = "str" -> IF x.decimal THEN [ok |-> TRUE, v |-> x.v]
                        ELSE [ok |-> FALSE, error |-> "ValueError"]
      [] OTHER -> [ok |-> FALSE, error |-> "TypeError"]

\* data.get("score", 0) and str(data.get("feedback", ""))
GetScore(data) ==
    IF data.score.t = "absent" THEN [t |-> "int", v |-> 0] ELSE data.score
GetFeedback(data) ==
    IF data.feedback.t = "absent" THEN "" ELSE data.feedback.v

ParseFailed == [ok |-> TRUE, score |-> 0, feedback |-> "parse failed"]

\* GeminiClient._parse_score_response: the dict returned or the exception
\* that leaves it (only JSONDecodeError and ValueError are caught)
_parse_score_response(response_text) ==
    LET loaded == json_loads(CleanText(response_text))
    IN IF ~loaded.ok THEN ParseFailed
       ELSE IF loaded.data.json # "object"
       THEN [ok |-> FALSE, error |-> "AttributeError"]
       ELSE LET score == PyInt(GetScore(loaded.data))
            IN IF score.ok
               THEN [ok |-> TRUE, score |-> score.v,
                     feedback |-> GetFeedback(loaded.data)]
               ELSE IF score.error = "ValueError" THEN ParseFailed
               ELSE [ok |-> FALSE, error |-> score.error]

\* GeminiClient.score_answers: ai is what the model call does
gemini_score_answers(ai) ==
    IF ai.kind = "api_error"
    THEN [kind |-> "GeminiClientError", msg |-> <<"Scoring API error", ai.msg>>]
    ELSE LET parsed == _parse_score_response(ai.text)
         IN IF parsed.ok
            THEN [kind |-> "result", score |-> parsed.score,
                  feedback |-> parsed.feedback]
            ELSE [kind |-> "GeminiClientError",
                  msg |-> <<"Scoring API error", parsed.error>>]

ScorePayloads ==
    {[json |-> j] : j \in {"garbage", "number", "array", "null"}}
    \cup {[json |-> "object", score |-> sc, feedback |-> f] :
             sc \in ScoreValues, f \in FeedbackValues}

Blank == {<<>>, <<Tok("ws")>>}
\* the payload in a fenced code block: the fence alone or with the tag json
\* at the start, the fence at the end, whitespace anywhere around
FencedTexts(p) ==
    {lead \o <<Tok("fence")>> \o tag \o inner1 \o <<Val(p)>> \o inner2
          \o <<Tok("fence")>> \o trail :
       lead \in Blank, tag \in {<<>>, <<Tok("json")>>}, inner1 \in Blank,
       inner2 \in Blank, trail \in Blank}

\* payloads given to _parse_response in a fence: those of one entry at most
ShortPayloads ==
    {[json |-> "garbage"], [json |-> "number"],
     [json |-> "object", has_words |-> FALSE]}
    \cup {WordsPayload(w) : w \in UNION {[1..n -> Entries] : n \in 0..1}}

ParseTexts == GenTexts \cup UNION {FencedTexts(p) : p \in ShortPayloads}
ScoreTexts ==
    {Bare(p) : p \in ScorePayloads}
    \cup UNION {FencedTexts(p) : p \in ScorePayloads}

ScoreAiResponses ==
    {[kind |-> "api_error", msg |-> m] : m \in {"e1", "e2"}}
    \cup {[kind |-> "text", text |-> t] : t \in ScoreTexts}

DateLists == {<<>>, <<isoformat(0), isoformat(1)>>}

\* The methods keep no state between calls, so one call per behaviour shows
\* all there is to see.
DirectCall(fn, input, result) ==
    /\ aiRet = NoAiRet
    /\ aiRet' = [fn |-> fn, input |-> input, result |-> result]
    /\ UNCHANGED <<clockVars, limVars, thrVars, scoreVars, genVars, wordsVars>>

ParseResponseCall(response_text) ==
    DirectCall("_parse_response", response_text,
               _parse_response(response_text))

ParseScoreResponseCall(response_text) ==
    DirectCall("_parse_score_response", response_text,
               _parse_score_response(response_text))

GeminiGenerateWordsCall(dates, ai) ==
    DirectCall("generate_words", [dates |-> dates, ai |-> ai],
               gemini_generate_words(dates, <<>>, ai))

GeminiScoreAnswersCall(ai) ==
    DirectCall("score_answers", [ai |-> ai], gemini_score_answers(ai))

NextAi ==
    \/ \E response_text \in ParseTexts : ParseResponseCall(response_text)
    \/ \E response_text \in ScoreTexts :
          ParseScoreResponseCall(response_text)
    \/ \E dates \in DateLists : \E ai \in AiResponses :
          GeminiGenerateWordsCall(dates, ai)
    \/ \E ai \in ScoreAiResponses : GeminiScoreAnswersCall(ai)

SpecAi == Init /\ [][NextAi]_vars

\* ----------------------------------------------------------- get_words
\* the query parameter "days": absent, a decimal integer, or another text
DaysValues == {0 - 5, 0, 1, 2, 3, 29, 30, 31, 100}
DaysArgs ==
    {[t |-> "absent", v |-> 0], [t |-> "text", v |-> 0]}
    \cup {[t |-> "int", v |-> n] : n \in DaysValues}

\* request.args.get("days", default=30, type=int): the default when the
\* parameter is absent or int() rejects it
ArgsGetInt(arg, default) == IF arg.t = "int" THEN arg.v ELSE default

Min2(a, b) == IF a <= b THEN a ELSE b

\* variant: no lower limit
ClampDays_unbounded_below(days) == Min2(days, MAX_DAYS)

\* min(max(days, 1), 30)
ClampDays(days) == Min2(Max2(days, 1), MAX_DAYS)

WordsMethods == {"GET", "OPTIONS", "POST", "DELETE"}
WordsRequests == {[method |-> m, days |-> a] : m \in WordsMethods, a \in DaysArgs}

\* what FirestoreClient() and the query do besides answering: raise
StoreFaults == {None, "e1", "e2"}

NoDateRange == [start |-> None, end |-> None]
\* create_response: body is the set of keys of the JSON object, the other
\* fields hold their values; CORS_HEADERS are set on every response
create_response(status, body, success, count, words, date_range, error) ==
    [status |-> status, body |-> body, success |-> success, count |-> count,
     words |-> words, date_range |-> date_range, error |-> error,
     allow_origin |-> "*"]

\* variant: the method is looked at after the store was read
WordsResponse_store_first(request, store_, today_, fault) ==
    [resp |-> IF request.method = "OPTIONS"
              THEN create_response(204, {}, FALSE, 0, <<>>, NoDateRange, "")
              ELSE create_response(405, {"error"}, FALSE, 0, <<>>, NoDateRange,
                                   "Method not allowed"),
     queried |-> <<[start |-> today_, end |-> today_]>>]

\* get_words: the Response and the list of date ranges the store was asked
\* for
WordsResponse(request, store_, today_, fault) ==
    IF request.method = "OPTIONS"
    THEN [resp |-> create_response(204, {}, FALSE, 0, <<>>, NoDateRange, ""),
          queried |-> <<>>]
    ELSE IF request.method # "GET"
    THEN [resp |-> create_response(405, {"error"}, FALSE, 0, <<>>, NoDateRange,
                                   "Method not allowed"),
          queried |-> <<>>]
    ELSE LET days == ClampDays(ArgsGetInt(request.days, DEFAULT_DAYS))
             end_date == today_ + (days - 1)
         IN IF fault # None
            THEN [resp |-> create_response(500, {"success", "error", "words"},
                                           FALSE, 0, <<>>, NoDateRange,
                                           "Internal server error"),
                  queried |-> <<>>]
            ELSE LET words == get_words_by_date_range(store_, today_, end_date)
                 IN [resp |-> create_response(
                                200, {"success", "count", "words", "date_range"},
                                TRUE, Len(words), words,
                                [start |-> isoformat(today_),
                                 end |-> isoformat(end_date)], ""),
                     queried |-> <<[start |-> today_, end |-> end_date]>>]

GetWords(request, fault) ==
    /\ wordsReq' = request
    /\ \E r \in {WordsResponse(request, db, today, fault)} :
          wordsResp' = [status |-> r.resp.status, body |-> r.resp.body,
                        success |-> r.resp.success, count |-> r.resp.count,
                        words |-> r.resp.words,
                        date_range |-> r.resp.date_range,
                        error |-> r.resp.error,
                        allow_origin |-> r.resp.allow_origin,
                        queried |-> r.queried, fault |-> fault]
    /\ UNCHANGED <<clockVars, limVars, thrVars, scoreVars, genVars, aiVars>>

\* the days the app may ask on: the first days of the calendar and a day
\* whose 30-day window ends inside the stored days
WordsTodays == {0, 1, MaxDay - MAX_DAYS}

\* the stores get_words may find: empty, a record for every day, for one
\* day, for a few days, and one with a record under a date that is none
WordStores ==
    {EmptyDb, Stocked(Days), Stocked({1}), Stocked({MinDay, 2, MaxDay}),
     save_words(Stocked({1, 4}), <<Doc(BogusDate, "w2")>>).db,
     save_words(Stocked({0, 3, MaxDay - 1}), <<Doc(isoformat(2), "w2")>>).db}

InitWords ==
    /\ InitLimiter(0)
    /\ InitScore
    /\ today \in WordsTodays
    /\ db \in WordStores
    /\ genResp = NoGenResponse
    /\ missingRet = NoMissing
    /\ InitAi

NextWords ==
    \E request \in WordsRequests : \E fault \in StoreFaults :
        GetWords(request, fault)

SpecWords == InitWords /\ [][NextWords]_vars

\* ================================================================ claims
\* number of timestamps of log in the window (t - 60 s, t]
WindowCount(log, t) ==
    Cardinality({i \in DOMAIN log : log[i] > t - WindowTicks /\ log[i] <= t})

\* number of occurrences of x in the list s
Occurrences(s, x) == Cardinality({i \in DOMAIN s : s[i] = x})

\* the step is a _check_rate_limit call of the key k (directly or from the
\* handler)
CallStep(k) == calls'[k] = calls[k] + 1

\* C1: with calls made one at a time, for every key and every instant t at
\* most 10 calls that returned allowed have their timestamp in (t - 60 s, t].
\* The instants t that need checking are the recorded timestamps: the window
\* ending at any t holds no timestamp that the window ending at the latest
\* timestamp not after t does not hold.
C1_AtMostMaxPerWindow ==
    \A k \in Keys : \A t \in SeqRange(allowedLog[k]) :
        WindowCount(allowedLog[k], t) <= RATE_LIMIT_MAX_REQUESTS

\* C1 witness: a key with more than 10 allowed calls in all, the latest one
\* allowed because older ones left the window
C1_Witness ==
    \E k \in Keys :
        /\ Len(allowedLog[k]) > RATE_LIMIT_MAX_REQUESTS
        /\ ret.key = k /\ ret.allowed

\* C2: a call is denied exactly when 10 earlier allowed calls of the key are
\* strictly newer than now - 60 s; an allowed call returns retry_after 0 and
\* records now, a denied call returns retry_after >= 1 and records nothing;
\* the first 10 calls of a key are all allowed.
C2_DeniedOnlyWhenFull ==
    [][\A k \in Keys : CallStep(k) =>
          LET earlier == Cardinality({i \in DOMAIN allowedLog[k] :
                                        allowedLog[k][i] > now - WindowTicks})
          IN /\ ret'.key = k /\ ret'.at = now
             /\ ret'.allowed <=> earlier < RATE_LIMIT_MAX_REQUESTS
             /\ ret'.allowed =>
                  /\ ret'.retry_after = 0
                  /\ Occurrences(store'[k], now) = Occurrences(store[k], now) + 1
                  /\ store'[k][Len(store'[k])] = now
             /\ ~ret'.allowed =>
                  /\ ret'.retry_after >= 1
                  /\ \A x \in 0..now :
                        Occurrences(store'[k], x) <= Occurrences(store[k], x)
                  /\ Occurrences(store'[k], now) = Occurrences(store[k], now)
             /\ calls'[k] <= RATE_LIMIT_MAX_REQUESTS => ret'.allowed
      ]_vars

\* C2 witness: the 11th call of a key, made inside the window of the first
\* ten, was denied
C2_Witness ==
    \E k \in Keys :
        /\ ret.key = k /\ ~ret.allowed /\ ret.retry_after >= 1
        /\ calls[k] = RATE_LIMIT_MAX_REQUESTS + 1
        /\ Len(allowedLog[k]) = RATE_LIMIT_MAX_REQUESTS
        /\ ret.at < allowedLog[k][1] + WindowTicks

\* C3: a call made retry_after seconds or more after a denial of the same
\* key, with no call of that key in between, is allowed.
C3_RetryAfterSuffices ==
    (/\ ret.key # None
     /\ ret.after.at >= 0
     /\ ret.at >= ret.after.at + ret.after.retry_after * TicksPerSecond)
    => ret.allowed

\* C3 witness: a call made exactly retry_after seconds after a denial that
\* came a fraction of a second after the oldest request
C3_Witness ==
    /\ ret.key # None
    /\ ret.after.at >= 0
    /\ ret.at = ret.after.at + ret.after.retry_after * TicksPerSecond
    /\ ret.after.at % TicksPerSecond # 0
    /\ ret.allowed

\* C4: under concurrent calls no timestamp younger than 60 s is missing from
\* the store, and at most 10 allowed calls have timestamps within any 60 s
\* window.
C4_ConcurrentWindowLimit ==
    \A k \in Keys :
        /\ \A x \in 0..now :
              x > now - WindowTicks =>
                 Occurrences(store[k], x) = Occurrences(allowedLog[k], x)
        /\ \A t \in 0..now :
              WindowCount(allowedLog[k], t) <= RATE_LIMIT_MAX_REQUESTS

\* the payload score_answers rejects
InvalidPayload(body) ==
    \/ body.kind \in {"none", "empty"}
    \/ /\ body.kind = "object"
       /\ \/ body.word \in {None, ""}
          \/ body.game_type \notin {"word_replacement", "rhyming"}

RejectedGameTypeStep(k) ==
    /\ CallStep(k)
    /\ scoreReq'.method = "POST"
    /\ _get_client_ip(scoreReq') = k
    /\ scoreReq'.body.kind = "object"
    /\ scoreReq'.body.game_type = "invalid"
    /\ scoreResp'.status = 400

\* C6 (as stated): a request rejected with 400 for an invalid game_type
\* leaves the client's timestamp list as it was.
C6_NoSlotConsumed ==
    [][\A k \in Keys : RejectedGameTypeStep(k) => store'[k] = store[k]]_vars

\* C6 (amended): a request rejected with 400 for an invalid game_type has
\* consumed a slot: the client's list afterwards is the list before, without
\* the timestamps not newer than now - 60 s, with now appended.
C6_SlotConsumed ==
    [][\A k \in Keys : RejectedGameTypeStep(k) =>
          store'[k] = Append(SelectSeq(store[k],
                                       LAMBDA ts : ts > now - WindowTicks), now)
      ]_vars

\* C6 witness: the rejected request is the newest timestamp of its client
C6_Witness ==
    /\ scoreReq.method = "POST"
    /\ scoreReq.body.kind = "object"
    /\ scoreReq.body.game_type = "invalid"
    /\ scoreResp.status = 400
    /\ LET k == _get_client_ip(scoreReq)
       IN /\ ret.key = k /\ ret.allowed
          /\ store[k] # <<>>
          /\ store[k][Len(store[k])] = ret.at

\* C7: a non-preflight request of a client that has 10 allowed requests in
\* the trailing 60 s gets 429 with Retry-After equal to the limiter's
\* retry_after; its payload is not validated and the AI layer is not called.
C7_RateLimitFirst ==
    [][\A k \in Keys :
          (CallStep(k) /\ WindowCount(allowedLog[k], now)
                             >= RATE_LIMIT_MAX_REQUESTS)
          => /\ scoreResp'.status = 429
             /\ ret'.key = k
             /\ scoreResp'.retry_after = ret'.retry_after
             /\ scoreResp'.retry_after >= 1
             /\ ~scoreResp'.validated
             /\ scoreResp'.ai_calls = 0
      ]_vars

\* C7 witness: a request with a valid payload was answered 429
C7_Witness ==
    /\ scoreReq.method = "POST"
    /\ scoreReq.body = ValidBody
    /\ scoreResp.status = 429
    /\ scoreResp.retry_after >= 1
    /\ scoreResp.ai_calls = 0

\* the date strings that have a document
ExistingDates(store_) == {id \in DocIds : store_[id] # NoDoc}

\* result is exactly the dates of [start, end] without a document, ascending
ExactlyMissing(result, store_, start_date, end_date) ==
    /\ {result[i] : i \in DOMAIN result}
         = {isoformat(d) : d \in start_date..end_date} \ ExistingDates(store_)
    /\ \A i \in DOMAIN result : \A j \in DOMAIN result :
          i < j => StrLT(result[i], result[j])
    /\ start_date > end_date => result = <<>>

\* C8: for every range and every store, get_missing_dates returns exactly the
\* dates of the range that have no document, ascending and without
\* duplicates, the empty list when start is after end; a call leaves the
\* store as it was.
C8_MissingDatesExact ==
    [][missingRet' # missingRet =>
          /\ db' = db
          /\ ExactlyMissing(missingRet'.result, db,
                            missingRet'.start, missingRet'.end)
      ]_vars

\* C8 witness: a range across the end of February with documents for some
\* of its dates, and a document whose date string is no date
C8_Witness ==
    /\ missingRet.start < missingRet.end
    /\ isoformat(missingRet.start)[2] # isoformat(missingRet.end)[2]
    /\ Len(missingRet.result) >= 2
    /\ Len(missingRet.result) < missingRet.end - missingRet.start + 1
    /\ db[BogusDate] # NoDoc
    /\ missingRet.result
         = get_missing_dates(db, missingRet.start, missingRet.end)

\* every date of [today, today + 7 days] has a document
WindowStocked(store_, today_) ==
    \A d \in today_..(today_ + DAYS_AHEAD) : store_[isoformat(d)] # NoDoc

\* C9: an invocation that finds a document for every date of the window
\* returns 200, success, generated 0, calls the AI layer not at all and
\* writes nothing.
C9_NothingToGenerate ==
    (genResp.status # 0 /\ WindowStocked(genResp.before, today))
    => /\ genResp.status = 200
       /\ genResp.success
       /\ genResp.generated = 0
       /\ genResp.ai_calls = 0
       /\ genResp.written = {}
       /\ db = genResp.before

\* C9 witness: an invocation on a complete window
C9_Witness ==
    /\ genResp.status = 200
    /\ genResp.generated = 0
    /\ genResp.message = "No generation needed"
    /\ WindowStocked(genResp.before, today)
    /\ WindowStocked(db, today)

\* C10: on a successful invocation "generated" equals the number of documents
\* the invocation wrote.
C10_GeneratedEqualsWritten ==
    (genResp.status = 200 /\ genResp.success)
    => genResp.generated = Cardinality(genResp.written)

\* the AI call of the invocation failed the ways the claim lists: the model
\* call raised, its text is no JSON, or its JSON object has no "words"
AiCallFailed == genResp.ai_kind \in {"api_error", "garbage", "no_words"}

\* C11: an invocation whose AI call fails (API error, text that is no JSON,
\* object without "words") returns 500 with success false and leaves the
\* store as it found it.
C11_AiFailureWritesNothing ==
    (genResp.status # 0 /\ AiCallFailed)
    => /\ genResp.status = 500
       /\ ~genResp.success
       /\ genResp.written = {}
       /\ db = genResp.before

\* C11 witness: an invocation on a partly stocked store whose AI response
\* lacks "words"
C11_Witness ==
    /\ genResp.status = 500
    /\ genResp.ai_kind = "no_words"
    /\ genResp.ai_calls = 1
    /\ genResp.before # EmptyDb
    /\ db = genResp.before

\* the last direct call parsed a text
ParsedText == aiRet.fn \in {"_parse_response", "_parse_score_response"}

HasFence(text) == \E i \in DOMAIN text : text[i].tok = "fence"

\* what the method of the last direct call gives for the payload alone
BareResult ==
    IF aiRet.fn = "_parse_response"
    THEN _parse_response(Bare(PayloadOf(aiRet.input)))
    ELSE _parse_score_response(Bare(PayloadOf(aiRet.input)))

\* C12: _parse_response and _parse_score_response give for a JSON payload in
\* a fenced code block (fence or fence with the tag json at the start, fence
\* at the end, whitespace around) the result they give for the bare payload.
C12_FencedSameAsBare ==
    (/\ ParsedText
     /\ HasFence(aiRet.input)
     /\ PayloadOf(aiRet.input).json # "garbage")
    => aiRet.result = BareResult

\* C12 witness: a scoring payload with a fractional score, in a fence with
\* the tag and whitespace on every side, parsed to the score 85
C12_Witness ==
    /\ aiRet.fn = "_parse_score_response"
    /\ Len(aiRet.input) = 7
    /\ aiRet.input[3].tok = "json"
    /\ PayloadOf(aiRet.input).json = "object"
    /\ aiRet.result.ok
    /\ aiRet.result.score = 85
    /\ aiRet.result = BareResult

\* the last direct call gave _parse_response an object whose "words" is a
\* list of objects
ParsedWordList ==
    /\ aiRet.fn = "_parse_response"
    /\ PayloadOf(aiRet.input).json = "object"
    /\ PayloadOf(aiRet.input).has_words

\* the entries of words that have all of the fields, in their order, as
\* _parse_response returns an entry
EntriesHaving(words, fields) ==
    LET Has(w) == fields \subseteq w.fields
        kept == SelectSeq(words, Has)
    IN [i \in DOMAIN kept |->
           [date |-> kept[i].date, word |-> kept[i].word,
            reading |-> kept[i].reading, word_en |-> kept[i].word_en]]

NumLacking(words, fields) ==
    Cardinality({i \in DOMAIN words : ~(fields \subseteq words[i].fields)})

\* the parse returned exactly the entries that have the fields
ReturnsEntriesHaving(fields) ==
    LET words == PayloadOf(aiRet.input).words
    IN /\ aiRet.result.ok
       /\ aiRet.result.words = EntriesHaving(words, fields)
       /\ Len(aiRet.result.words) = Len(words) - NumLacking(words, fields)

\* C13: for a "words" list of objects _parse_response returns, in order,
\* exactly the entries that have date, word and reading, and skips the
\* others without raising; the length is the number of entries less those
\* lacking one of the three.
C13_KeepsEntriesWithThreeFields ==
    ParsedWordList => ReturnsEntriesHaving({"date", "word", "reading"})

\* the last direct call was generate_words with dates to generate for
GeneratedDirectly ==
    /\ aiRet.fn = "generate_words"
    /\ aiRet.input.dates # <<>>

\* C14: generate_words raises GeminiParseError when the response text is no
\* valid JSON or has no "words" key, and plain GeminiClientError when the
\* model call itself fails.
C14_ParseErrorClass ==
    GeneratedDirectly
    => /\ AiKind(aiRet.input.ai) \in {"garbage", "no_words"}
            => (~aiRet.result.ok /\ aiRet.result.error = "GeminiParseError")
       /\ AiKind(aiRet.input.ai) = "api_error"
            => (~aiRet.result.ok /\ aiRet.result.error = "GeminiClientError")

\* C15: whatever text the model returns to a scoring call (no JSON, a JSON
\* value that is no object, an object with any kind of score), the scoring
\* parse does not raise and score_answers returns a result with an integer
\* score; a text that is no JSON gives score 0 with the parse-failed feedback.
C15_ScoringNeverRaises ==
    /\ aiRet.fn = "_parse_score_response"
         => /\ aiRet.result.ok
            /\ aiRet.result.score \in Int
            /\ PayloadOf(aiRet.input).json = "garbage"
                 => aiRet.result = ParseFailed
    /\ (aiRet.fn = "score_answers" /\ aiRet.input.ai.kind = "text")
         => /\ aiRet.result.kind = "result"
            /\ aiRet.result.score \in Int

\* the last get_words request was a GET that the store answered
WordsServed ==
    /\ wordsReq.method = "GET"
    /\ wordsResp.fault = None

\* the number of days the claim resolves the parameter to: 30 when absent,
\* else the integer brought into [1, 30]
ResolvedDays(arg) ==
    IF arg.t = "absent" THEN 30
    ELSE IF arg.v < 1 THEN 1
    ELSE IF arg.v > 30 THEN 30
    ELSE arg.v

\* C16: for the parameter days absent or any integer, get_words asks the
\* store for [today, today + d - 1] with d = days brought into [1, 30] (30
\* when absent) and echoes that window as date_range; days = 100 gives a
\* window of 29 days' difference, days <= 0 a window of one day.
C16_WindowClamped ==
    (WordsServed /\ wordsReq.days.t \in {"absent", "int"})
    => LET d == ResolvedDays(wordsReq.days)
           q == wordsResp.queried
       IN /\ q = <<[start |-> today, end |-> today + d - 1]>>
          /\ wordsResp.date_range = [start |-> isoformat(q[1].start),
                                     end |-> isoformat(q[1].end)]
          /\ (wordsReq.days.t = "int" /\ wordsReq.days.v = 100)
                => q[1].end - q[1].start = 29
          /\ (wordsReq.days.t = "int" /\ wordsReq.days.v <= 0)
                => q[1].end = q[1].start

\* C16 witness: days = 100 answered with a 30-day window that ends inside
\* the stored days and leaves a stored record out
C16_Witness ==
    /\ WordsServed
    /\ wordsReq.days = [t |-> "int", v |-> 100]
    /\ wordsResp.status = 200
    /\ wordsResp.queried[1].end = today + 29
    /\ wordsResp.queried[1].end < MaxDay
    /\ db[isoformat(MaxDay)] # NoDoc
    /\ wordsResp.count > 0

\* the records of the store whose date string lies in [start, end]
RecordsIn(store_, start_date, end_date) ==
    {store_[id] : id \in
        {i \in DocIds : /\ store_[i] # NoDoc
                        /\ ~StrLT(store_[i].date, isoformat(start_date))
                        /\ ~StrLT(isoformat(end_date), store_[i].date)}}

\* C17: a GET that the store answers returns 200 with success true and no
\* error field; words are exactly the stored records dated in the window
\* [today, today + d - 1], each once, in ascending date order, and count is
\* their number.
C17_WordsOfWindow ==
    WordsServed
    => LET d == ClampDays(ArgsGetInt(wordsReq.days, DEFAULT_DAYS))
           words == wordsResp.words
       IN /\ wordsResp.status = 200
          /\ wordsResp.success
          /\ "error" \notin wordsResp.body
          /\ {words[i] : i \in DOMAIN words} = RecordsIn(db, today, today + d - 1)
          /\ \A i \in DOMAIN words : \A j \in DOMAIN words :
                i < j => StrLT(words[i].date, words[j].date)
          /\ wordsResp.count = Len(words)

\* C17 witness: a three-day window holding one of the three stored records,
\* one record before it and one after it
C17_Witness ==
    /\ WordsServed
    /\ wordsReq.days = [t |-> "int", v |-> 3]
    /\ today = 0
    /\ wordsResp.count = 1
    /\ wordsResp.words[1].date = isoformat(2)
    /\ db[isoformat(MinDay)] # NoDoc
    /\ db[isoformat(MaxDay)] # NoDoc
    /\ db[isoformat(0)] = NoDoc

\* C18: get_words looks at the method before it touches the store: OPTIONS
\* gets 204 and any method other than GET and OPTIONS gets 405 with the error
\* "Method not allowed", neither asks the store for anything, and every
\* response carries Access-Control-Allow-Origin: *.
C18_MethodDispatchFirst ==
    wordsResp.status # 0
    => /\ wordsReq.method = "OPTIONS"
            => (wordsResp.status = 204 /\ wordsResp.queried = <<>>)
       /\ wordsReq.method \notin {"GET", "OPTIONS"}
            => /\ wordsResp.status = 405
               /\ "error" \in wordsResp.body
               /\ wordsResp.error = "Method not allowed"
               /\ wordsResp.queried = <<>>
       /\ wordsResp.status \in {204, 405, 200, 500}
       /\ wordsResp.allow_origin = "*"

\* C18 witness: a DELETE answered 405 while the store, had it been asked,
\* would have raised
C18_Witness ==
    /\ wordsReq.method = "DELETE"
    /\ wordsResp.fault = "e1"
    /\ wordsResp.status = 405
    /\ wordsResp.queried = <<>>
    /\ db # EmptyDb

\* C19: an error caught at the boundary of a handler gives status 500 with a
\* fixed generic error text, the same whatever the caught exception says.
\* Checked on score_answers.
C19_GenericErrorText ==
    scoreResp.status = 500
    => scoreResp.error \in {<<"AI scoring failed">>, <<"Internal server error">>}

NonDecreasing(s) == \A i \in DOMAIN s : \A j \in DOMAIN s : i < j => s[i] <= s[j]

\* C20: in every reachable state, concurrent calls included, the timestamp
\* list of every key is in non-decreasing order.
C20_ListsOrdered == \A k \in Keys : NonDecreasing(store[k])

\* the AI call of the invocation returned a JSON object with a "words" list
AiReturnedWords ==
    /\ genResp.status # 0
    /\ genResp.ai_calls = 1
    /\ genResp.ai_kind = "words"

\* the entries of the returned list that have every required field
WellFormed == EntriesHaving(genResp.ai_words, RequiredFields)

SomeMalformed == NumLacking(genResp.ai_words, RequiredFields) > 0

\* C21, as stated: whenever the AI response parses and some of its entries
\* are malformed, the invocation returns 200 with success true and generated
\* equal to the number of well-formed entries, also when every entry is
\* malformed.
C21_MalformedAlwaysDropped ==
    (AiReturnedWords /\ SomeMalformed)
    => /\ genResp.status = 200
       /\ genResp.success
       /\ genResp.generated = Len(WellFormed)

\* C21, amended: when the AI response parses and some of its entries are
\* malformed, the invocation returns 200 with success true and generated equal
\* to the number of well-formed entries if there is at least one of them, and
\* 500 with success false, generated 0 and "No words generated" otherwise,
\* leaving the store as it found it.
C21_DroppedUnlessNoneLeft ==
    (AiReturnedWords /\ SomeMalformed)
    => IF WellFormed # <<>>
       THEN /\ genResp.status = 200
            /\ genResp.success
            /\ genResp.generated = Len(WellFormed)
            /\ genResp.written = {WellFormed[i].date : i \in DOMAIN WellFormed}
       ELSE /\ genResp.status = 500
            /\ ~genResp.success
            /\ genResp.generated = 0
            /\ genResp.error = <<"No words generated">>
            /\ genResp.written = {}
            /\ db = genResp.before

\* C21 witness: an invocation whose AI response has a well-formed entry and a
\* malformed one, answered 200 with generated 1
C21_Witness ==
    /\ AiReturnedWords
    /\ Len(genResp.ai_words) = 2
    /\ Len(WellFormed) = 1
    /\ genResp.status = 200
    /\ genResp.generated = 1

\* the step is score_answers answering a preflight
PreflightStep ==
    /\ scoreReq'.method = "OPTIONS"
    /\ scoreResp'.status = 204
    /\ now' = now

\* C22: a _check_rate_limit call of a key leaves the timestamp list of every
\* other key as it was, and it is allowed exactly when fewer than 10 allowed
\* calls of its own key lie in the trailing 60 s, whatever calls of other
\* keys came in between; a preflight leaves every list as it was.
C22_KeyIsolation ==
    [][/\ \A k \in Keys :
             CallStep(k)
             => /\ \A j \in Keys \ {k} : store'[j] = store[j]
                /\ ret'.key = k
                /\ ret'.allowed
                     <=> (WindowCount(allowedLog[k], now)
                             < RATE_LIMIT_MAX_REQUESTS)
       /\ PreflightStep => store' = store
      ]_vars

\* C22 witness: the key "a" has used up its window and was denied, and the
\* first call of the key "b" after that is allowed and recorded in the list
\* of "b" alone
C22_Witness ==
    /\ ret.key = "b"
    /\ ret.allowed
    /\ store["b"] = <<now>>
    /\ pending["a"] # NoPending
    /\ Len(store["a"]) = RATE_LIMIT_MAX_REQUESTS
    /\ now \notin SeqRange(store["a"])

\* the date strings of [today, today + 7 days]
WindowDates == {isoformat(d) : d \in today..(today + DAYS_AHEAD)}

\* C23, as stated: an invocation writes only documents of dates of
\* [today, today + 7 days] that had no document when it started, whatever the
\* AI returns.
C23_OnlyMissingDatesWritten ==
    genResp.status # 0
    => /\ genResp.written \subseteq WindowDates
       /\ \A id \in genResp.written : genResp.before[id] = NoDoc
       /\ \A id \in DocIds : genResp.before[id] # NoDoc
                                => db[id] = genResp.before[id]

\* the last well-formed entry the AI returned for the date
LastReturnedFor(id) ==
    WellFormed[CHOOSE i \in DOMAIN WellFormed :
                  /\ WellFormed[i].date = id
                  /\ \A j \in DOMAIN WellFormed :
                        WellFormed[j].date = id => j <= i]

\* C23, amended: an invocation, running alone, writes a document for exactly
\* the dates of the well-formed entries the AI returned, each with the last
\* such entry of its date, and leaves every other document as it found it;
\* those dates need neither have been missing nor lie in the window.
C23_WritesWhatAiReturned ==
    genResp.status # 0
    => /\ genResp.written = {WellFormed[i].date : i \in DOMAIN WellFormed}
       /\ \A id \in DocIds :
             db[id] = IF id \in genResp.written THEN LastReturnedFor(id)
                      ELSE genResp.before[id]

\* C23 witness: an invocation that replaced the word of an existing document
\* and wrote a document for a date after the window
C23_Witness ==
    /\ genResp.status = 200
    /\ genResp.written = {isoformat(1), isoformat(MaxDay)}
    /\ today + DAYS_AHEAD < MaxDay
    /\ genResp.before[isoformat(1)] # NoDoc
    /\ genResp.before[isoformat(1)].word = "w1"
    /\ db[isoformat(1)].word = "w2"
    /\ genResp.before[isoformat(MaxDay)] = NoDoc
    /\ db[isoformat(MaxDay)] # NoDoc

====
